---- MODULE Spec2Model ----
(***************************************************************************)
(* Model of backend/main.py of CALIFICADOR_AIMARA: the text normaliser,    *)
(* the four similarity metrics, the weighted final score, the /evaluate    *)
(* handler and the file-backed catalog store (load_data / save_data /      *)
(* export_json).                                                            *)
(*                                                                         *)
(* Strings are sequences of one-character tokens.  Floating point values   *)
(* are IEEE-754 binary64 numbers, kept as fixed-point bit vectors, so that *)
(* int(x * 100) is computed as Python computes it.                         *)
(***************************************************************************)
EXTENDS Integers, Sequences, FiniteSets, TLC

VARIABLES
    \* the text helpers called on their own
    fn,             \* the function applied last
    text,           \* raw text handed to normalize_text
    p1, p2,         \* the two arguments of a metric
    outText,        \* value returned by normalize_text
    score,          \* value returned by a metric
    \* one request to /evaluate
    pc,             \* the statement evaluate_audio is at
    word_id,        \* form field word_id
    audio,          \* the uploaded file
    data,           \* value returned by load_data
    word_obj,       \* value returned by find_word_in_data (<<>> for None)
    reference_word,
    spoken_text,
    fuzzy_score, lev_score, seq_score, fonetico_score,
    final_score,
    steps,          \* the statements of evaluate_audio completed so far
    response,       \* the HTTP response
    \* the catalog file and the threads that call the store functions
    DATA_FILE,      \* content of data.json
    DATA_TMP,       \* content of data.tmp
    write_lock,     \* thread holding _write_lock, 0 when free
    thread_fn,      \* per thread: the store function it was called with
    thread_pc,      \* per thread: the statement it is at
    thread_arg,     \* per thread: the argument of save_data
    thread_ret,     \* per thread: what its last call returned
    thread_calls    \* per thread: calls started so far

pureVars == <<fn, text, p1, p2, outText, score>>

scoreVars == <<fuzzy_score, lev_score, seq_score, fonetico_score, final_score>>

requestVars == <<pc, word_id, audio, data, word_obj, reference_word, spoken_text,
                 steps, response>>

threadVars == <<thread_fn, thread_pc, thread_arg, thread_ret, thread_calls>>

storeVars == <<DATA_FILE, DATA_TMP, write_lock, threadVars>>

vars == <<pureVars, scoreVars, requestVars, storeVars>>

(***************************************************************************)
(* Bounds of the model.                                                    *)
(***************************************************************************)
MaxRawLen == 3     \* longest raw text handed to normalize_text
MaxLen == 3        \* longest argument of the four metrics
MaxLevLen == 5     \* longest argument of calcular_levenshtein_score alone
MaxFonLen == 2     \* longest first argument of calcular_fonetico_score alone
MaxOperand == 16   \* largest length or length sum in the percentage tables
MaxCalls == 2      \* calls of store functions each thread makes

(***************************************************************************)
(* Strings.                                                                *)
(***************************************************************************)
RECURSIVE StringsUpTo(_, _)
StringsUpTo(alphabet, n) ==
    IF n = 0 THEN {<<>>}
    ELSE LET shorter == StringsUpTo(alphabet, n - 1)
         IN  shorter \cup {Append(s, c) : s \in shorter, c \in alphabet}

RECURSIVE Concat(_)
Concat(seqOfSeqs) ==
    IF seqOfSeqs = <<>> THEN <<>>
    ELSE Head(seqOfSeqs) \o Concat(Tail(seqOfSeqs))

(***************************************************************************)
(* Python floats.  A float is an IEEE-754 binary64 number: MantissaBits    *)
(* significant bits, every arithmetic result rounded to nearest, ties to   *)
(* even.  The non-negative values that occur here are kept in fixed point: *)
(* a tuple x of NumLimbs limbs of LimbBits bits each, x[1] the integer     *)
(* part and x[2..NumLimbs] the fraction, most significant limb first.      *)
(***************************************************************************)
MantissaBits == 53
LimbBits == 12
NumLimbs == 6
Base == 2 ^ LimbBits
Width == NumLimbs * LimbBits

\* a function on 1..n as the tuple of its values
Tuple(f) == <<>> \o f

\* the float of a natural number n < Base (exact)
FromNat(n) == Tuple([j \in 1..NumLimbs |-> IF j = 1 THEN n ELSE 0])

\* int(x): truncation toward zero
int(x) == x[1]

\* limbs 1..j of s with the carries (or borrows) propagated upward
RECURSIVE CarryFrom(_, _, _)
CarryFrom(s, j, carry) ==
    IF j = 0 THEN <<>>
    ELSE Append(CarryFrom(s, j - 1, (s[j] + carry) \div Base), (s[j] + carry) % Base)

Carried(s) == CarryFrom(Tuple(s), NumLimbs, 0)

AddLimbs(x, y) == Carried([j \in 1..NumLimbs |-> x[j] + y[j]])

\* x - y for x >= y
SubLimbs(x, y) == Carried([j \in 1..NumLimbs |-> x[j] - y[j]])

\* the exact product of x and a natural number k
TimesNat(x, k) == Carried([j \in 1..NumLimbs |-> x[j] * k])

\* the first k fraction limbs of r / m, for r < m, and what is left of r
RECURSIVE QuotientLimbs(_, _, _)
QuotientLimbs(r, m, k) ==
    IF k = 0 THEN <<>>
    ELSE <<(r * Base) \div m>> \o QuotientLimbs((r * Base) % m, m, k - 1)

RECURSIVE QuotientRest(_, _, _)
QuotientRest(r, m, k) == IF k = 0 THEN r ELSE QuotientRest((r * Base) % m, m, k - 1)

\* bit b of x, bit 1 the most significant bit of x[1]
BitAt(x, b) ==
    (x[((b - 1) \div LimbBits) + 1] \div (2 ^ (LimbBits - 1 - ((b - 1) % LimbBits)))) % 2

\* x with the bits after bit `last` cleared
KeepUpTo(x, last) ==
    Tuple([j \in 1..NumLimbs |->
              IF j * LimbBits <= last THEN x[j]
              ELSE IF (j - 1) * LimbBits >= last THEN 0
              ELSE (x[j] \div (2 ^ (j * LimbBits - last))) * (2 ^ (j * LimbBits - last))])

\* x with one unit added at bit `last`
Increment(x, last) ==
    Carried([j \in 1..NumLimbs |->
                IF (j - 1) * LimbBits < last /\ last <= j * LimbBits
                THEN x[j] + 2 ^ (j * LimbBits - last)
                ELSE x[j]])

\* round to nearest, ties to even, at MantissaBits significant bits; `inexact`
\* says that the exact value lies above x by less than the last bit of x
RoundToFloat(x, inexact) ==
    LET ones == {b \in 1..Width : BitAt(x, b) = 1}
    IN  IF ones = {} THEN x
        ELSE LET lead == CHOOSE b \in ones : \A c \in ones : b <= c
                 last == lead + MantissaBits - 1
             IN  IF last >= Width THEN x
                 ELSE LET rest == inexact \/ \E b \in (last + 2)..Width : BitAt(x, b) = 1
                      IN  IF BitAt(x, last + 1) = 1 /\ (rest \/ BitAt(x, last) = 1)
                          THEN Increment(KeepUpTo(x, last), last)
                          ELSE KeepUpTo(x, last)

\* n / m for natural numbers n, m (Python's true division of two exact values)
float_div(n, m) ==
    RoundToFloat(<<n \div m>> \o QuotientLimbs(n % m, m, NumLimbs - 1),
                 QuotientRest(n % m, m, NumLimbs - 1) # 0)

float_add(x, y) == RoundToFloat(AddLimbs(x, y), FALSE)

float_sub(x, y) == RoundToFloat(SubLimbs(x, y), FALSE)

\* x * k for a float x and an int k (k converts to a float exactly)
float_mul(x, k) == RoundToFloat(TimesNat(x, k), FALSE)

(***************************************************************************)
(* normalize_text.  Characters: "a" a lowercase letter, "A" its uppercase, *)
(* "a_acute" the precomposed U+00E1, "acute" the combining mark U+0301,    *)
(* "1" a digit, " " the space, "!" a punctuation mark.                     *)
(***************************************************************************)
RawChars == {"a", "A", "a_acute", "acute", "1", " ", "!"}

LowercaseLetters == {"a", "b", "c", "g", "j", "k", "l", "r", "s", "v", "y", "z"}

\* str.lower(), per character
lower(c) == IF c = "A" THEN "a" ELSE c

\* str.isspace(), per character
isspace(c) == c = " "

\* str.isalpha(), per character: letters only, not marks, digits, punctuation
isalpha(c) == c \in LowercaseLetters \cup {"A", "a_acute"}

\* unicodedata.normalize("NFD", c): canonical decomposition of one character
NFD(c) == IF c = "a_acute" THEN <<"a", "acute">> ELSE <<c>>

\* str.strip(): leading and trailing whitespace removed
RECURSIVE lstrip(_)
lstrip(s) == IF s # <<>> /\ isspace(Head(s)) THEN lstrip(Tail(s)) ELSE s

RECURSIVE rstrip(_)
rstrip(s) ==
    IF s # <<>> /\ isspace(s[Len(s)]) THEN rstrip(SubSeq(s, 1, Len(s) - 1)) ELSE s

strip(s) == rstrip(lstrip(s))

normalize_text(t) ==
    LET lowered    == strip([i \in 1..Len(t) |-> lower(t[i])])
        decomposed == Concat([i \in 1..Len(lowered) |-> NFD(lowered[i])])
    IN  SelectSeq(decomposed, LAMBDA c : isalpha(c) \/ c = " ")

(***************************************************************************)
(* rapidfuzz.distance.Levenshtein with the default weights (1, 1, 1).      *)
(***************************************************************************)
Min2(x, y) == IF x <= y THEN x ELSE y

Max2(x, y) == IF x >= y THEN x ELSE y

\* one row of the edit-distance table: cur holds columns 0..Len(cur)-1
RECURSIVE LevenshteinRow(_, _, _, _)
LevenshteinRow(prev, ch, b, cur) ==
    IF Len(cur) = Len(b) + 1 THEN cur
    ELSE LET j == Len(cur)
         IN  LevenshteinRow(prev, ch, b,
                 Append(cur, Min2(Min2(prev[j + 1] + 1, cur[j] + 1),
                                  prev[j] + (IF ch = b[j] THEN 0 ELSE 1))))

RECURSIVE LevenshteinRows(_, _, _, _)
LevenshteinRows(a, b, i, prev) ==
    IF i > Len(a) THEN prev
    ELSE LevenshteinRows(a, b, i + 1, LevenshteinRow(prev, a[i], b, <<i>>))

Levenshtein_distance(a, b) ==
    LevenshteinRows(a, b, 1, [k \in 1..(Len(b) + 1) |-> k - 1])[Len(b) + 1]

\* int((1 - dist / maximum) * 100) in float arithmetic, where dist / maximum is
\* the library's normalized distance; tabulated once over the operands
similarity_percent ==
    [maximum \in 1..MaxOperand |->
        [dist \in 0..maximum |->
            int(float_mul(float_sub(FromNat(1), float_div(dist, maximum)), 100))]]

\* calcular_levenshtein_score with round() in place of int()
calcular_levenshtein_score_rounded(a, b) ==
    IF a = <<>> /\ b = <<>> THEN 100
    ELSE IF a = <<>> \/ b = <<>> THEN 0
    ELSE LET m == Max2(Len(a), Len(b))
         IN  (200 * (m - Levenshtein_distance(a, b)) + m) \div (2 * m)

\* calcular_levenshtein_score with the two guards merged into "not a or not b"
calcular_levenshtein_score_either_empty(a, b) ==
    IF a = <<>> \/ b = <<>> THEN 100
    ELSE similarity_percent[Max2(Len(a), Len(b))][Levenshtein_distance(a, b)]

\* int((1 - Levenshtein.normalized_distance(a, b)) * 100), the normalized
\* distance being distance / max(len(a), len(b))
calcular_levenshtein_score(a, b) ==
    IF a = <<>> /\ b = <<>> THEN 100
    ELSE IF a = <<>> \/ b = <<>> THEN 0
    ELSE similarity_percent[Max2(Len(a), Len(b))][Levenshtein_distance(a, b)]

(***************************************************************************)
(* difflib.SequenceMatcher(None, a, b) without junk; the autojunk          *)
(* heuristic only acts on second sequences of 200 or more elements.        *)
(* Positions are 0-based offsets as in difflib: a[i] of Python is a[i + 1]. *)
(***************************************************************************)
\* length of the longest common run starting at a[i], b[j] within a[..ahi), b[..bhi)
RunLength(a, b, i, j, ahi, bhi) ==
    LET runs == {k \in 0..Min2(ahi - i, bhi - j) :
                    \A t \in 0..(k - 1) : a[i + t + 1] = b[j + t + 1]}
    IN  CHOOSE k \in runs : \A n \in runs : n <= k

\* the longest matching block of a[alo:ahi] and b[blo:bhi]; of the longest, the
\* one starting earliest in a, and of those the one starting earliest in b
find_longest_match(a, b, alo, ahi, blo, bhi) ==
    LET starts   == (alo..(ahi - 1)) \X (blo..(bhi - 1))
        sizes    == {RunLength(a, b, st[1], st[2], ahi, bhi) : st \in starts} \cup {0}
        bestsize == CHOOSE k \in sizes : \A n \in sizes : n <= k
        longest  == {st \in starts : RunLength(a, b, st[1], st[2], ahi, bhi) = bestsize}
        best     == CHOOSE st \in longest :
                        \A ot \in longest :
                            st[1] < ot[1] \/ (st[1] = ot[1] /\ st[2] <= ot[2])
    IN  IF bestsize = 0 THEN [i |-> alo, j |-> blo, size |-> 0]
        ELSE [i |-> best[1], j |-> best[2], size |-> bestsize]

\* get_matching_blocks: total size of the blocks found by matching the longest
\* block and then, recursively, the pieces to its left and to its right
RECURSIVE matching_blocks_size(_, _, _, _, _, _)
matching_blocks_size(a, b, alo, ahi, blo, bhi) ==
    LET m == find_longest_match(a, b, alo, ahi, blo, bhi)
    IN  IF m.size = 0 THEN 0
        ELSE m.size
             + (IF alo < m.i /\ blo < m.j
                THEN matching_blocks_size(a, b, alo, m.i, blo, m.j) ELSE 0)
             + (IF m.i + m.size < ahi /\ m.j + m.size < bhi
                THEN matching_blocks_size(a, b, m.i + m.size, ahi, m.j + m.size, bhi)
                ELSE 0)

\* int((2.0 * matches / length) * 100) in float arithmetic; tabulated once over
\* the operands
ratio_percent ==
    [length \in 1..MaxOperand |->
        [matches \in 0..(length \div 2) |->
            int(float_mul(float_div(2 * matches, length), 100))]]

\* SequenceMatcher_percent with the matches taken as a share of the first
\* sequence alone
SequenceMatcher_percent_of_first(a, b) ==
    IF Len(a) + Len(b) = 0 THEN 100
    ELSE IF Len(a) = 0 THEN 0
    ELSE ratio_percent[2 * Len(a)][matching_blocks_size(a, b, 0, Len(a), 0, Len(b))]

\* SequenceMatcher_percent with the matches taken as a share of the mean length
\* counted twice: 2.0 * matches / ((len(a) + len(b)) / 2)
SequenceMatcher_percent_doubled(a, b) ==
    IF Len(a) + Len(b) = 0 THEN 100
    ELSE 2 * ratio_percent[Len(a) + Len(b)][matching_blocks_size(a, b, 0, Len(a), 0, Len(b))]

\* int(SequenceMatcher(None, a, b).ratio() * 100); ratio() is
\* 2.0 * matches / (len(a) + len(b)), and 1.0 when both are empty
SequenceMatcher_percent(a, b) ==
    IF Len(a) + Len(b) = 0 THEN 100
    ELSE ratio_percent[Len(a) + Len(b)][matching_blocks_size(a, b, 0, Len(a), 0, Len(b))]

calcular_sequence_score(a, b) ==
    IF a = <<>> /\ b = <<>> THEN 100
    ELSE SequenceMatcher_percent(a, b)

(***************************************************************************)
(* rapidfuzz.fuzz.ratio: the normalized Indel similarity times 100.        *)
(***************************************************************************)
\* one row of the longest-common-subsequence table
RECURSIVE LcsRow(_, _, _, _)
LcsRow(prev, ch, b, cur) ==
    IF Len(cur) = Len(b) + 1 THEN cur
    ELSE LET j == Len(cur)
         IN  LcsRow(prev, ch, b,
                 Append(cur, IF ch = b[j] THEN prev[j] + 1
                             ELSE Max2(prev[j + 1], cur[j])))

RECURSIVE LcsRows(_, _, _, _)
LcsRows(a, b, i, prev) ==
    IF i > Len(a) THEN prev
    ELSE LcsRows(a, b, i + 1, LcsRow(prev, a[i], b, <<0>>))

LCSseq_similarity(a, b) ==
    LcsRows(a, b, 1, [k \in 1..(Len(b) + 1) |-> 0])[Len(b) + 1]

\* insertions and deletions only
\* Indel_distance counting the deletions from a only
Deletion_distance(a, b) == Len(a) - LCSseq_similarity(a, b)

\* insertions plus deletions turning a into b
Indel_distance(a, b) == Len(a) + Len(b) - 2 * LCSseq_similarity(a, b)

\* int(fuzz.ratio(a, b)); fuzz.ratio is (1 - dist / maximum) * 100 with the Indel
\* distance and maximum = len(a) + len(b), the normalized distance of two empty
\* strings being 0.0
fuzz_ratio_percent(a, b) ==
    IF Len(a) + Len(b) = 0 THEN 100
    ELSE similarity_percent[Len(a) + Len(b)][Indel_distance(a, b)]

calcular_fuzzy_score(a, b) ==
    IF a = <<>> /\ b = <<>> THEN 100
    ELSE fuzz_ratio_percent(a, b)

(***************************************************************************)
(* calcular_fonetico_score.  grupos in the dict's insertion order; a key   *)
(* and a group are strings, iterated character by character.               *)
(***************************************************************************)
grupos ==
    << [s |-> <<"b">>,      g |-> <<"b", "v">>],
       [s |-> <<"v">>,      g |-> <<"b", "v">>],
       [s |-> <<"c">>,      g |-> <<"c", "k", "s", "z">>],
       [s |-> <<"s">>,      g |-> <<"s", "c", "z">>],
       [s |-> <<"z">>,      g |-> <<"z", "s">>],
       [s |-> <<"g">>,      g |-> <<"g", "j">>],
       [s |-> <<"j">>,      g |-> <<"j", "g">>],
       [s |-> <<"l", "l">>, g |-> <<"l", "l", "y">>],
       [s |-> <<"y">>,      g |-> <<"y", "l", "l">>],
       [s |-> <<"r">>,      g |-> <<"r", "r">>] >>

\* p.replace(l, repl) for one-character l and repl
replace(p, l, repl) == Tuple([i \in 1..Len(p) |-> IF p[i] = l THEN repl ELSE p[i]])

\* for l in g: p = p.replace(l, repl)
RECURSIVE replace_each(_, _, _)
replace_each(p, g, repl) ==
    IF g = <<>> THEN p
    ELSE replace_each(replace(p, Head(g), repl), Tail(g), repl)

\* for s, g in grupos.items(): repl = s[0]; ...
RECURSIVE nf_from(_, _)
nf_from(p, rules) ==
    IF rules = <<>> THEN p
    ELSE nf_from(replace_each(p, Head(rules).g, Head(rules).s[1]), Tail(rules))

nf(p) == nf_from(Tuple([i \in 1..Len(p) |-> lower(p[i])]), grupos)

calcular_fonetico_score(a, b) ==
    IF a = <<>> /\ b = <<>> THEN 100
    ELSE SequenceMatcher_percent(nf(a), nf(b))

(***************************************************************************)
(* The final score of evaluate_audio: the float literals 0.3 and 0.2 are   *)
(* the floats nearest to 3/10 and 2/10; the products and the three sums    *)
(* are float operations, added left to right; int() truncates.             *)
(***************************************************************************)
weight_03 == float_div(3, 10)

weight_02 == float_div(2, 10)

weighted_final_score(fuzzy, lev, seq, fonetico) ==
    int(float_add(float_add(float_add(float_mul(weight_03, fuzzy),
                                      float_mul(weight_03, lev)),
                            float_mul(weight_02, seq)),
                  float_mul(weight_02, fonetico)))

(***************************************************************************)
(* The catalog file data.json.  A file is Missing or holds a text; a text  *)
(* is a JSON document written out in full, or cut short (which json.loads  *)
(* rejects with JSONDecodeError).                                          *)
(***************************************************************************)
Missing == [exists |-> FALSE]

FileWith(t) == [exists |-> TRUE, text |-> t]

\* json.dumps(d, ensure_ascii=False, indent=2)
json_dumps(d) == [json |-> d, complete |-> TRUE]

\* a proper prefix of a text
CutShort(t) == [json |-> t.json, complete |-> FALSE]

\* whether json.loads(t) returns rather than raising JSONDecodeError
json_valid(t) == t.complete

json_loads(t) == t.json

\* {"categories": []}, the default of load_data and export_json
EmptyCatalog == [categories |-> <<>>]

\* a catalog of two categories; words 2 and 3 have no letters, word 4 has no
\* aymara field, and a second word carries the id 1 again
SampleCatalog ==
    [categories |->
        << [id |-> 1, name |-> "hogar",
            words |-> << [id |-> 1, spanish |-> "casa",
                          aymara |-> <<"c", "A", "s", "a">>],
                         [id |-> 2, spanish |-> "uno",
                          aymara |-> <<"1", "!">>] >>],
           [id |-> 2, name |-> "otros",
            words |-> << [id |-> 3, spanish |-> "nada",
                          aymara |-> <<" ">>],
                         [id |-> 1, spanish |-> "llama",
                          aymara |-> <<"l", "l">>],
                         [id |-> 4, spanish |-> "sin texto"] >>] >>]

\* w.get("aymara", "")
get_aymara(w) == IF "aymara" \in DOMAIN w THEN w.aymara ELSE <<>>

\* every word of every category, in file order
WordsOf(d) == Concat([c \in 1..Len(d.categories) |-> d.categories[c].words])

\* the first word with the id, as <<word>>, or <<>> for None
find_word_in_data(d, id) ==
    LET found == SelectSeq(WordsOf(d), LAMBDA w : w.id = id)
    IN  IF found = <<>> THEN <<>> ELSE <<Head(found)>>

(***************************************************************************)
(* Values of the variables a specification does not use.                   *)
(***************************************************************************)

NoScores ==
    /\ fuzzy_score = 0 /\ lev_score = 0 /\ seq_score = 0 /\ fonetico_score = 0
    /\ final_score = 0

NoRequest ==
    /\ pc = "idle"
    /\ word_id = 0
    /\ audio = [kind |-> "empty", says |-> <<>>]
    /\ data = [categories |-> <<>>]
    /\ word_obj = <<>>
    /\ reference_word = <<>>
    /\ spoken_text = <<>>
    /\ steps = <<>>
    /\ response = [status |-> 0]

Threads == {1, 2}

NoThreads ==
    /\ DATA_TMP = Missing
    /\ write_lock = 0
    /\ thread_fn = [t \in Threads |-> "none"]
    /\ thread_pc = [t \in Threads |-> "idle"]
    /\ thread_arg = [t \in Threads |-> EmptyCatalog]
    /\ thread_ret = [t \in Threads |-> [kind |-> "none"]]
    /\ thread_calls = [t \in Threads |-> 0]

NoStore ==
    /\ DATA_FILE = Missing
    /\ NoThreads

(***************************************************************************)
(* Specification of normalize_text as a pure function.                     *)
(***************************************************************************)
InitNormalize ==
    /\ fn = "none"
    /\ text \in StringsUpTo(RawChars, MaxRawLen)
    /\ p1 = <<>> /\ p2 = <<>>
    /\ outText = <<>>
    /\ score = 0
    /\ NoScores /\ NoRequest /\ NoStore

CallNormalize ==
    /\ fn = "none"
    /\ fn' = "normalize_text"
    /\ outText' = normalize_text(text)
    /\ UNCHANGED <<text, p1, p2, score>>
    /\ UNCHANGED <<scoreVars, requestVars, storeVars>>

\* the returned text is handed to normalize_text again
CallNormalizeAgain ==
    /\ fn = "normalize_text"
    /\ fn' = "normalize_text_twice"
    /\ outText' = normalize_text(outText)
    /\ UNCHANGED <<text, p1, p2, score>>
    /\ UNCHANGED <<scoreVars, requestVars, storeVars>>

NextNormalize == CallNormalize \/ CallNormalizeAgain

SpecNormalize == InitNormalize /\ [][NextNormalize]_vars

\* C1: normalize_text is idempotent: normalising an already normalised text
\* returns it unchanged, for every input text.
C1_NormalizeIdempotent ==
    fn = "normalize_text_twice" => outText = normalize_text(text)

(***************************************************************************)
(* Specification of the four metrics as pure functions of two normalized   *)
(* strings.                                                                *)
(***************************************************************************)
MetricChars == {"a", "c", "s"}

InitMetrics ==
    /\ fn = "none"
    /\ text = <<>> /\ outText = <<>>
    /\ p1 \in StringsUpTo(MetricChars, MaxLen)
    /\ p2 \in StringsUpTo(MetricChars, MaxLen)
    /\ score = 0
    /\ NoScores /\ NoRequest /\ NoStore

CallLevenshtein ==
    /\ fn = "none"
    /\ fn' = "calcular_levenshtein_score"
    /\ score' = calcular_levenshtein_score(p1, p2)
    /\ UNCHANGED <<text, p1, p2, outText>>
    /\ UNCHANGED <<scoreVars, requestVars, storeVars>>

CallSequence ==
    /\ fn = "none"
    /\ fn' = "calcular_sequence_score"
    /\ score' = calcular_sequence_score(p1, p2)
    /\ UNCHANGED <<text, p1, p2, outText>>
    /\ UNCHANGED <<scoreVars, requestVars, storeVars>>

CallFuzzy ==
    /\ fn = "none"
    /\ fn' = "calcular_fuzzy_score"
    /\ score' = calcular_fuzzy_score(p1, p2)
    /\ UNCHANGED <<text, p1, p2, outText>>
    /\ UNCHANGED <<scoreVars, requestVars, storeVars>>

CallFonetico ==
    /\ fn = "none"
    /\ fn' = "calcular_fonetico_score"
    /\ score' = calcular_fonetico_score(p1, p2)
    /\ UNCHANGED <<text, p1, p2, outText>>
    /\ UNCHANGED <<scoreVars, requestVars, storeVars>>

NextMetrics == CallLevenshtein \/ CallSequence \/ CallFuzzy \/ CallFonetico

SpecMetrics == InitMetrics /\ [][NextMetrics]_vars

\* x occurs in y as one contiguous block
IsBlockOf(x, y) ==
    \E i \in 0..(Len(y) - Len(x)) : SubSeq(y, i + 1, i + Len(x)) = x

\* C2 (as claimed): calcular_sequence_score gives the same score with its two
\* arguments swapped, for every pair of normalized strings.
C2_SequenceSymmetric ==
    fn = "calcular_sequence_score" => score = calcular_sequence_score(p2, p1)

\* C2 (amended): calcular_sequence_score gives the same score with its arguments
\* swapped whenever one string occurs in the other as one contiguous block
\* (equal strings and an empty string included) and both strings are shorter
\* than 200 characters, the length from which difflib's autojunk acts.
C2_SequenceSymmetricOnBlocks ==
    (fn = "calcular_sequence_score" /\ (IsBlockOf(p1, p2) \/ IsBlockOf(p2, p1)))
        => score = calcular_sequence_score(p2, p1)

C2_Witness ==
    /\ fn = "calcular_sequence_score"
    /\ p1 = <<"a", "c">>
    /\ p2 = <<"s", "a", "c">>
    /\ score = 80

\* C5: the Levenshtein, sequence and phonetic scores are 100 for two empty
\* strings and 0 when exactly one of the two strings is empty.
C5_EmptyStringPolicy ==
    fn \in {"calcular_levenshtein_score", "calcular_sequence_score",
            "calcular_fonetico_score"}
        => /\ (p1 = <<>> /\ p2 = <<>>) => score = 100
           /\ ((p1 = <<>>) # (p2 = <<>>)) => score = 0

C5_Witness ==
    /\ fn = "calcular_fonetico_score"
    /\ p1 = <<>>
    /\ p2 = <<"c", "a", "s">>
    /\ score = 0

\* C6: each of the four metrics returns an integer from 0 to 100, for every
\* pair of strings, empty strings included.
C6_ScoreInRange ==
    fn # "none" => score \in 0..100

C6_Witness ==
    /\ fn = "calcular_sequence_score"
    /\ p1 = <<"a", "c", "a">>
    /\ p2 = <<"c", "s", "a">>
    /\ score = 33

\* C8: calcular_fuzzy_score gives the same score with its arguments swapped, and
\* it is 100 exactly when the two strings are equal.
C8_FuzzySymmetricAndExact ==
    fn = "calcular_fuzzy_score"
        => /\ score = calcular_fuzzy_score(p2, p1)
           /\ (score = 100) <=> (p1 = p2)

C8_Witness ==
    /\ fn = "calcular_fuzzy_score"
    /\ p1 = <<"a", "c", "s">>
    /\ p2 = <<"a", "s", "c">>
    /\ score = 66

(***************************************************************************)
(* Specification of calcular_levenshtein_score alone, on longer strings.   *)
(***************************************************************************)
LevChars == {"a", "b"}

InitLevenshtein ==
    /\ fn = "none"
    /\ text = <<>> /\ outText = <<>>
    /\ p1 \in StringsUpTo(LevChars, MaxLevLen)
    /\ p2 \in StringsUpTo(LevChars, MaxLevLen)
    /\ score = 0
    /\ NoScores /\ NoRequest /\ NoStore

NextLevenshtein == CallLevenshtein

SpecLevenshtein == InitLevenshtein /\ [][NextLevenshtein]_vars

\* round(n / m) as Python rounds: to the nearest integer, halves to even
RoundHalfEven(n, m) ==
    IF 2 * (n % m) < m THEN n \div m
    ELSE IF 2 * (n % m) > m THEN (n \div m) + 1
    ELSE IF (n \div m) % 2 = 0 THEN n \div m
    ELSE (n \div m) + 1

\* C3 (as claimed): for non-empty strings the Levenshtein score is the
\* percentage (1 - d / max(len)) * 100 rounded to the nearest integer.
C3_LevenshteinRounded ==
    (fn = "calcular_levenshtein_score" /\ p1 # <<>> /\ p2 # <<>>)
        => score = RoundHalfEven(
                       100 * (Max2(Len(p1), Len(p2)) - Levenshtein_distance(p1, p2)),
                       Max2(Len(p1), Len(p2)))

\* C3 (amended): for non-empty strings the Levenshtein score is the percentage
\* (1 - d / max(len)) * 100 truncated, not rounded: it is the floor of the exact
\* percentage, or one less where the exact percentage is a whole number that
\* the float product falls just short of.
C3_LevenshteinTruncated ==
    (fn = "calcular_levenshtein_score" /\ p1 # <<>> /\ p2 # <<>>)
        => LET m     == Max2(Len(p1), Len(p2))
               exact == 100 * (m - Levenshtein_distance(p1, p2))
           IN  /\ score \in {(exact \div m) - 1, exact \div m}
               /\ exact % m # 0 => score = exact \div m

C3_Witness ==
    /\ fn = "calcular_levenshtein_score"
    /\ p1 = <<"a", "a", "a">>
    /\ p2 = <<"a", "a", "b">>
    /\ score = 66

(***************************************************************************)
(* Specification of calcular_fonetico_score on pairs of strings that       *)
(* differ only by letters of one phonetic group: the second string starts  *)
(* as the first and has group members substituted for one another.         *)
(***************************************************************************)
FonChars == {"a", "b", "c", "g", "l", "y"}

\* the groups of grupos, as sets of interchangeable single letters
LetterGroups == {{"b", "v"}, {"c", "k", "s", "z"}, {"g", "j"}}

InitFonetico ==
    /\ fn = "none"
    /\ text = <<>> /\ outText = <<>>
    /\ p1 \in StringsUpTo(FonChars, MaxFonLen)
    /\ p2 = p1
    /\ score = 0
    /\ NoScores /\ NoRequest /\ NoStore

\* one letter of p2 replaced by another letter of its group
SubstituteLetter ==
    /\ fn = "none"
    /\ \E i \in 1..Len(p2), grp \in LetterGroups :
          /\ p2[i] \in grp
          /\ \E ch \in grp \ {p2[i]} : p2' = [p2 EXCEPT ![i] = ch]
    /\ UNCHANGED <<fn, text, p1, outText, score>>
    /\ UNCHANGED <<scoreVars, requestVars, storeVars>>

\* "ll" in p2 replaced by "y"
SubstituteLLByY ==
    /\ fn = "none"
    /\ \E i \in 1..(Len(p2) - 1) :
          /\ p2[i] = "l" /\ p2[i + 1] = "l"
          /\ p2' = SubSeq(p2, 1, i - 1) \o <<"y">> \o SubSeq(p2, i + 2, Len(p2))
    /\ UNCHANGED <<fn, text, p1, outText, score>>
    /\ UNCHANGED <<scoreVars, requestVars, storeVars>>

\* "y" in p2 replaced by "ll"
SubstituteYByLL ==
    /\ fn = "none"
    /\ Len(p2) <= MaxFonLen
    /\ \E i \in 1..Len(p2) :
          /\ p2[i] = "y"
          /\ p2' = SubSeq(p2, 1, i - 1) \o <<"l", "l">> \o SubSeq(p2, i + 1, Len(p2))
    /\ UNCHANGED <<fn, text, p1, outText, score>>
    /\ UNCHANGED <<scoreVars, requestVars, storeVars>>

NextFonetico ==
    SubstituteLetter \/ SubstituteLLByY \/ SubstituteYByLL \/ CallFonetico

SpecFonetico == InitFonetico /\ [][NextFonetico]_vars

\* C4: two normalized strings that differ only by members of one phonetic group
\* (b/v, c/k/s/z, g/j, ll/y) substituted for one another score 100.
C4_PhoneticGroupsScore100 ==
    fn = "calcular_fonetico_score" => score = 100

(***************************************************************************)
(* Specification of the final score as a pure function of four scores.     *)
(***************************************************************************)
ScoreSamples == {0, 16, 36, 60, 70, 80, 90, 99, 100}

InitAggregate ==
    /\ fn = "none"
    /\ text = <<>> /\ outText = <<>> /\ p1 = <<>> /\ p2 = <<>> /\ score = 0
    /\ fuzzy_score \in ScoreSamples
    /\ lev_score \in ScoreSamples
    /\ seq_score \in ScoreSamples
    /\ fonetico_score \in ScoreSamples
    /\ final_score = 0
    /\ NoRequest /\ NoStore

ComputeFinalScore ==
    /\ fn = "none"
    /\ fn' = "final_score"
    /\ final_score' = weighted_final_score(fuzzy_score, lev_score, seq_score,
                                           fonetico_score)
    /\ UNCHANGED <<text, p1, p2, outText, score>>
    /\ UNCHANGED <<fuzzy_score, lev_score, seq_score, fonetico_score>>
    /\ UNCHANGED <<requestVars, storeVars>>

NextAggregate == ComputeFinalScore

SpecAggregate == InitAggregate /\ [][NextAggregate]_vars

\* C7: the final score is the weighted sum 0.30 fuzzy + 0.30 levenshtein +
\* 0.20 sequence + 0.20 phonetic truncated toward zero, that is
\* floor((30 fuzzy + 30 lev + 20 seq + 20 phon) / 100), for every four scores.
C7_FinalScoreIsFloorOfWeightedSum ==
    fn = "final_score"
        => final_score = (30 * fuzzy_score + 30 * lev_score
                          + 20 * seq_score + 20 * fonetico_score) \div 100

(***************************************************************************)
(* Specification of one request to POST /evaluate (evaluate_audio), one    *)
(* action per statement that can end the request.                          *)
(***************************************************************************)
WordIds == 1..5

\* what the speech recognizer would return for an upload that holds speech
Utterances == {<<"c", "A", "z", "a">>, <<"c", "a", "s", "a">>, <<"y">>, <<"1">>}

Uploads ==
    {[kind |-> k, says |-> <<>>] : k \in {"empty", "undecodable", "unintelligible"}}
        \cup {[kind |-> "speech", says |-> u] : u \in Utterances}

InitEvaluate ==
    /\ fn = "none"
    /\ text = <<>> /\ outText = <<>> /\ p1 = <<>> /\ p2 = <<>> /\ score = 0
    /\ NoScores
    /\ pc = "load_data"
    /\ word_id \in WordIds
    /\ audio \in Uploads
    /\ data = EmptyCatalog
    /\ word_obj = <<>>
    /\ reference_word = <<>>
    /\ spoken_text = <<>>
    /\ steps = <<>>
    /\ response = [status |-> 0]
    /\ DATA_FILE \in {Missing,
                      FileWith(json_dumps(SampleCatalog)),
                      FileWith(json_dumps(EmptyCatalog)),
                      FileWith(CutShort(json_dumps(SampleCatalog)))}
    /\ NoThreads

\* raise HTTPException(status_code, detail)
Raise(code, detail) ==
    /\ pc' = "done"
    /\ response' = [status |-> code, detail |-> detail]

\* data = load_data(): creates the file with the empty catalog when it is
\* missing, raises 500 when the file does not parse
LoadData ==
    /\ pc = "load_data"
    /\ steps' = Append(steps, "load_data")
    /\ IF ~DATA_FILE.exists
       THEN /\ DATA_FILE' = FileWith(json_dumps(EmptyCatalog))
            /\ data' = EmptyCatalog
            /\ pc' = "find_word_in_data"
            /\ UNCHANGED response
       ELSE IF json_valid(DATA_FILE.text)
       THEN /\ data' = json_loads(DATA_FILE.text)
            /\ pc' = "find_word_in_data"
            /\ UNCHANGED <<DATA_FILE, response>>
       ELSE /\ Raise(500, "data.json tiene JSON invalido")
            /\ UNCHANGED <<DATA_FILE, data>>
    /\ UNCHANGED <<pureVars, scoreVars, DATA_TMP, write_lock, threadVars>>
    /\ UNCHANGED <<word_id, audio, word_obj, reference_word, spoken_text>>

\* word_obj = find_word_in_data(data, word_id); 404 if not word_obj
FindWord ==
    /\ pc = "find_word_in_data"
    /\ steps' = Append(steps, "find_word_in_data")
    /\ word_obj' = find_word_in_data(data, word_id)
    /\ IF find_word_in_data(data, word_id) = <<>>
       THEN Raise(404, "Palabra no encontrada")
       ELSE pc' = "normalize_reference" /\ UNCHANGED response
    /\ UNCHANGED <<pureVars, scoreVars, storeVars>>
    /\ UNCHANGED <<word_id, audio, data, reference_word, spoken_text>>

\* NormalizeReference without the check of the normalized reference
NormalizeReferenceUnchecked ==
    /\ pc = "normalize_reference"
    /\ steps' = Append(steps, "normalize_reference")
    /\ reference_word' = normalize_text(get_aymara(word_obj[1]))
    /\ pc' = "audio_read"
    /\ UNCHANGED response
    /\ UNCHANGED <<pureVars, scoreVars, storeVars>>
    /\ UNCHANGED <<word_id, audio, data, word_obj, spoken_text>>

\* reference_word = normalize_text(word_obj.get("aymara", "")); 500 if empty
NormalizeReference ==
    /\ pc = "normalize_reference"
    /\ steps' = Append(steps, "normalize_reference")
    /\ reference_word' = normalize_text(get_aymara(word_obj[1]))
    /\ IF normalize_text(get_aymara(word_obj[1])) = <<>>
       THEN Raise(500, "La palabra de referencia esta vacia o invalida")
       ELSE pc' = "audio_read" /\ UNCHANGED response
    /\ UNCHANGED <<pureVars, scoreVars, storeVars>>
    /\ UNCHANGED <<word_id, audio, data, word_obj, spoken_text>>

\* audio_bytes = await audio.read(); 400 if not audio_bytes
ReadAudio ==
    /\ pc = "audio_read"
    /\ steps' = Append(steps, "audio_read")
    /\ IF audio.kind = "empty"
       THEN Raise(400, "Archivo de audio vacio")
       ELSE pc' = "decode" /\ UNCHANGED response
    /\ UNCHANGED <<pureVars, scoreVars, storeVars>>
    /\ UNCHANGED <<word_id, audio, data, word_obj, reference_word, spoken_text>>

\* AudioSegment.from_file(..., format="webm"), export to wav, recognizer.record;
\* any exception of these becomes a 500
DecodeAudio ==
    /\ pc = "decode"
    /\ steps' = Append(steps, "decode")
    /\ IF audio.kind = "undecodable"
       THEN Raise(500, "Error procesando audio")
       ELSE pc' = "recognize_google" /\ UNCHANGED response
    /\ UNCHANGED <<pureVars, scoreVars, storeVars>>
    /\ UNCHANGED <<word_id, audio, data, word_obj, reference_word, spoken_text>>

\* recognizer.recognize_google(audio_data, language="es-ES") returns the text, or
\* raises UnknownValueError (400), or RequestError when the service fails (502)
Transcribe ==
    /\ pc = "recognize_google"
    /\ steps' = Append(steps, "recognize_google")
    /\ \/ /\ audio.kind = "speech"
          /\ spoken_text' = normalize_text(audio.says)
          /\ pc' = "score"
          /\ UNCHANGED response
       \/ /\ audio.kind = "unintelligible"
          /\ Raise(400, "No se pudo reconocer el audio (muy bajo, ruido, etc.)")
          /\ UNCHANGED spoken_text
       \/ /\ Raise(502, "Fallo en el servicio de reconocimiento")
          /\ UNCHANGED spoken_text
    /\ UNCHANGED <<pureVars, scoreVars, storeVars>>
    /\ UNCHANGED <<word_id, audio, data, word_obj, reference_word>>

\* the four scores, the final score and the success response
Score ==
    /\ pc = "score"
    /\ steps' = Append(steps, "score")
    /\ fuzzy_score' = calcular_fuzzy_score(reference_word, spoken_text)
    /\ lev_score' = calcular_levenshtein_score(reference_word, spoken_text)
    /\ seq_score' = calcular_sequence_score(reference_word, spoken_text)
    /\ fonetico_score' = calcular_fonetico_score(reference_word, spoken_text)
    /\ final_score' = weighted_final_score(fuzzy_score', lev_score', seq_score',
                                           fonetico_score')
    /\ response' = [status |-> 200, final_score |-> final_score',
                    reference |-> reference_word, spoken |-> spoken_text]
    /\ pc' = "done"
    /\ UNCHANGED <<pureVars, storeVars>>
    /\ UNCHANGED <<word_id, audio, data, word_obj, reference_word, spoken_text>>

NextEvaluate ==
    \/ LoadData
    \/ FindWord
    \/ NormalizeReference
    \/ ReadAudio
    \/ DecodeAudio
    \/ Transcribe
    \/ Score

SpecEvaluate == InitEvaluate /\ [][NextEvaluate]_vars

\* the ids of the words of a catalog
IdsOf(d) == {WordsOf(d)[k].id : k \in 1..Len(WordsOf(d))}

\* C9: a request whose reference word has no text left after normalization ends
\* in a 500 error before the audio is read and never returns a final_score; a
\* word_id that is not in the catalog ends in a 404 error before anything is
\* normalized; a response with a final_score comes only after the word lookup,
\* a non-empty reference, a non-empty audio and a transcription, in that order.
C9_EvaluateFailsBeforeScoring ==
    /\ ("normalize_reference" \in {steps[k] : k \in 1..Len(steps)}
            /\ reference_word = <<>>)
        => /\ pc = "done"
           /\ response.status = 500
           /\ "final_score" \notin DOMAIN response
           /\ steps = <<"load_data", "find_word_in_data", "normalize_reference">>
    /\ ("find_word_in_data" \in {steps[k] : k \in 1..Len(steps)}
            /\ word_id \notin IdsOf(data))
        => /\ pc = "done"
           /\ response.status = 404
           /\ "final_score" \notin DOMAIN response
           /\ steps = <<"load_data", "find_word_in_data">>
    /\ "final_score" \in DOMAIN response
        => /\ steps = <<"load_data", "find_word_in_data", "normalize_reference",
                        "audio_read", "decode", "recognize_google", "score">>
           /\ word_id \in IdsOf(data)
           /\ reference_word # <<>>
           /\ audio.kind = "speech"
           /\ response.status = 200

C9_Witness ==
    /\ pc = "done"
    /\ word_id = 2
    /\ audio.kind = "speech"
    /\ reference_word = <<>>
    /\ response.status = 500
    /\ steps = <<"load_data", "find_word_in_data", "normalize_reference">>

(***************************************************************************)
(* Specification of the catalog store under concurrent callers: threads of *)
(* the server's pool call load_data, save_data and export_json, one        *)
(* statement at a time.  DATA_FILE.exists() is evaluated before            *)
(* _write_lock is taken; write_text truncates data.tmp and then fills it;  *)
(* tmp.replace(DATA_FILE) is one atomic rename.                            *)
(***************************************************************************)
OneWordCatalog ==
    [categories |->
        << [id |-> 1, name |-> "hogar",
            words |-> << [id |-> 1, spanish |-> "casa",
                          aymara |-> <<"u", "t", "a">>] >>] >>]

Catalogs == {EmptyCatalog, OneWordCatalog, SampleCatalog}

InitStore ==
    /\ fn = "none"
    /\ text = <<>> /\ outText = <<>> /\ p1 = <<>> /\ p2 = <<>> /\ score = 0
    /\ NoScores
    /\ NoRequest
    /\ DATA_FILE \in {Missing} \cup {FileWith(json_dumps(d)) : d \in Catalogs}
    /\ NoThreads

StoreStep(t, next_pc) ==
    /\ thread_pc' = [thread_pc EXCEPT ![t] = next_pc]
    /\ UNCHANGED <<pureVars, scoreVars, requestVars>>

\* a thread of the pool enters load_data() or export_json()
CallReader(t) ==
    /\ thread_pc[t] = "idle"
    /\ thread_calls[t] < MaxCalls
    /\ \E f \in {"load_data", "export_json"} :
          thread_fn' = [thread_fn EXCEPT ![t] = f]
    /\ thread_calls' = [thread_calls EXCEPT ![t] = @ + 1]
    /\ thread_ret' = [thread_ret EXCEPT ![t] = [kind |-> "none"]]
    /\ StoreStep(t, "exists")
    /\ UNCHANGED <<DATA_FILE, DATA_TMP, write_lock, thread_arg>>

\* a thread of the pool enters save_data(d)
CallSaveData(t) ==
    /\ thread_pc[t] = "idle"
    /\ thread_calls[t] < MaxCalls
    /\ thread_fn' = [thread_fn EXCEPT ![t] = "save_data"]
    /\ \E d \in Catalogs : thread_arg' = [thread_arg EXCEPT ![t] = d]
    /\ thread_calls' = [thread_calls EXCEPT ![t] = @ + 1]
    /\ thread_ret' = [thread_ret EXCEPT ![t] = [kind |-> "none"]]
    /\ StoreStep(t, "acquire")
    /\ UNCHANGED <<DATA_FILE, DATA_TMP, write_lock>>

\* if not DATA_FILE.exists(): save_data({"categories": []}), of load_data and of
\* export_json
CheckExists(t) ==
    /\ thread_pc[t] = "exists"
    /\ IF DATA_FILE.exists
       THEN /\ StoreStep(t, IF thread_fn[t] = "load_data" THEN "read_text"
                                                          ELSE "FileResponse")
            /\ UNCHANGED thread_arg
       ELSE /\ StoreStep(t, "acquire")
            /\ thread_arg' = [thread_arg EXCEPT ![t] = EmptyCatalog]
    /\ UNCHANGED <<DATA_FILE, DATA_TMP, write_lock, thread_fn, thread_ret,
                   thread_calls>>

\* with _write_lock: (entry)
Acquire(t) ==
    /\ thread_pc[t] = "acquire"
    /\ write_lock = 0
    /\ write_lock' = t
    /\ StoreStep(t, "open_tmp")
    /\ UNCHANGED <<DATA_FILE, DATA_TMP, thread_fn, thread_arg, thread_ret,
                   thread_calls>>

\* tmp.write_text(...): the file is created or truncated, part of the text is in
OpenTmp(t) ==
    /\ thread_pc[t] = "open_tmp"
    /\ DATA_TMP' = FileWith(CutShort(json_dumps(thread_arg[t])))
    /\ StoreStep(t, "write_tmp")
    /\ UNCHANGED <<DATA_FILE, write_lock, thread_fn, thread_arg, thread_ret,
                   thread_calls>>

\* tmp.write_text(...): the rest of the text is written and the file closed
WriteTmp(t) ==
    /\ thread_pc[t] = "write_tmp"
    /\ DATA_TMP' = FileWith(json_dumps(thread_arg[t]))
    /\ StoreStep(t, "replace")
    /\ UNCHANGED <<DATA_FILE, write_lock, thread_fn, thread_arg, thread_ret,
                   thread_calls>>

\* tmp.replace(DATA_FILE)
Replace(t) ==
    /\ thread_pc[t] = "replace"
    /\ DATA_FILE' = DATA_TMP
    /\ DATA_TMP' = Missing
    /\ StoreStep(t, "release")
    /\ UNCHANGED <<write_lock, thread_fn, thread_arg, thread_ret, thread_calls>>

\* with _write_lock: (exit), and the return of save_data to its caller
Release(t) ==
    /\ thread_pc[t] = "release"
    /\ write_lock' = 0
    /\ IF thread_fn[t] = "load_data"
       THEN /\ thread_ret' = [thread_ret EXCEPT
                                 ![t] = [kind |-> "data", data |-> EmptyCatalog]]
            /\ StoreStep(t, "idle")
       ELSE IF thread_fn[t] = "export_json"
       THEN /\ StoreStep(t, "FileResponse")
            /\ UNCHANGED thread_ret
       ELSE /\ thread_ret' = [thread_ret EXCEPT ![t] = [kind |-> "saved"]]
            /\ StoreStep(t, "idle")
    /\ UNCHANGED <<DATA_FILE, DATA_TMP, thread_fn, thread_arg, thread_calls>>

\* return json.loads(DATA_FILE.read_text(encoding="utf-8")), of load_data
ReadText(t) ==
    /\ thread_pc[t] = "read_text"
    /\ thread_ret' = [thread_ret EXCEPT ![t] =
          IF json_valid(DATA_FILE.text)
          THEN [kind |-> "data", data |-> json_loads(DATA_FILE.text)]
          ELSE [kind |-> "error", status |-> 500]]
    /\ StoreStep(t, "idle")
    /\ UNCHANGED <<DATA_FILE, DATA_TMP, write_lock, thread_fn, thread_arg,
                   thread_calls>>

\* return FileResponse(DATA_FILE, ...), of export_json
SendFile(t) ==
    /\ thread_pc[t] = "FileResponse"
    /\ thread_ret' = [thread_ret EXCEPT ![t] =
                         [kind |-> "file", text |-> DATA_FILE.text]]
    /\ StoreStep(t, "idle")
    /\ UNCHANGED <<DATA_FILE, DATA_TMP, write_lock, thread_fn, thread_arg,
                   thread_calls>>

NextStore ==
    \E t \in Threads :
        \/ CallReader(t)
        \/ CallSaveData(t)
        \/ CheckExists(t)
        \/ Acquire(t)
        \/ OpenTmp(t)
        \/ WriteTmp(t)
        \/ Replace(t)
        \/ Release(t)
        \/ ReadText(t)
        \/ SendFile(t)

SpecStore == InitStore /\ [][NextStore]_vars

\* the threads between writing data.tmp and replacing data.json
Writers == {t \in Threads : thread_pc[t] \in {"open_tmp", "write_tmp", "replace"}}

\* at most one caller is between writing data.tmp and replacing data.json
WritesSerialized == Cardinality(Writers) <= 1

\* data.json, whenever it exists, holds one complete document
DataFileComplete == DATA_FILE.exists => json_valid(DATA_FILE.text)

\* no load_data has failed on, and no export_json has sent, a partial document
NoPartialRead ==
    \A t \in Threads :
        /\ thread_ret[t].kind # "error"
        /\ thread_ret[t].kind = "file" => json_valid(thread_ret[t].text)

\* a step in which the default catalog of load_data or export_json replaces a
\* data.json that holds a non-empty catalog
DefaultOverwritesCatalog ==
    /\ DATA_FILE.exists
    /\ json_loads(DATA_FILE.text) # EmptyCatalog
    /\ DATA_FILE' # DATA_FILE
    /\ json_loads(DATA_FILE'.text) = EmptyCatalog
    /\ \E t \in Threads :
          /\ thread_fn[t] \in {"load_data", "export_json"}
          /\ thread_pc[t] = "replace"
          /\ thread_pc'[t] = "release"

====
